---- MODULE Spec2Model ----
(***************************************************************************)
(* TouchState (services/inputflinger/dispatcher/TouchState.cpp): the       *)
(* per-device ordered collection of TouchedWindow records and the          *)
(* operations of the input dispatcher on it.                               *)
(*                                                                         *)
(* A std::bitset<MAX_POINTER_ID + 1> is modelled as the set of its set     *)
(* bits, a std::optional<nsecs_t> as a set with at most one element, a     *)
(* ftl::Flags value as the set of its flags, and std::vector as a          *)
(* sequence.  sp<WindowInfoHandle> equality is identity of the handle;     *)
(* several handles can share one token.                                    *)
(***************************************************************************)
EXTENDS Integers, Sequences, FiniteSets, TLC

\* ---------------------------------------------------------------- bounds
MaxPointerId == 1
MaxTime == 2

\* ---------------------------------------------------------------- domains
PointerIdRange == 0..MaxPointerId
Times == 1..MaxTime
OptTimes == {{}} \cup {{t} : t \in Times}

\* Window handles (identity) and the token each one reports.
Handles == {"hA1", "hA2", "hB"}
Tokens == {"tA", "tB"}
getToken(h) == IF h = "hB" THEN "tB" ELSE "tA"

\* getInfo()->inputConfig.test(WindowInfo::InputConfig::SLIPPERY) of a handle.
SlipperyHandles == {"hA1", "hB"}
inputConfigSlippery(h) == h \in SlipperyHandles

FOREGROUND == "FOREGROUND"
DISPATCH_AS_IS == "DISPATCH_AS_IS"
DISPATCH_AS_OUTSIDE == "DISPATCH_AS_OUTSIDE"
DISPATCH_AS_SLIPPERY_EXIT == "DISPATCH_AS_SLIPPERY_EXIT"
DISPATCH_AS_SLIPPERY_ENTER == "DISPATCH_AS_SLIPPERY_ENTER"
DISPATCH_MASK ==
    {DISPATCH_AS_IS, DISPATCH_AS_OUTSIDE, DISPATCH_AS_SLIPPERY_EXIT, DISPATCH_AS_SLIPPERY_ENTER}

\* ---------------------------------------------------------------- state
VARIABLES
    windows,   \* TouchState::windows
    pre,       \* history: windows before the last operation
    last       \* history: the last operation and its arguments

vars == <<windows, pre, last>>

\* ---------------------------------------------------------------- TouchedWindow
\* A default-constructed TouchedWindow for a handle.
TouchedWindow(windowHandle) ==
    [windowHandle |-> windowHandle,
     targetFlags |-> {},
     pointerIds |-> {},
     hoveringPointers |-> {},
     pilferedPointerIds |-> {},
     firstDownTimeInTarget |-> {}]

removeTouchingPointer(w, pointerId) == [w EXCEPT !.pointerIds = @ \ {pointerId}]

TouchedWindow_clearHoveringPointers(w) == [w EXCEPT !.hoveringPointers = {}]

addHoveringPointer(w, deviceId, pointerId) ==
    [w EXCEPT !.hoveringPointers = @ \cup {<<deviceId, pointerId>>}]

TouchedWindow_removeHoveringPointer(w, deviceId, pointerId) ==
    [w EXCEPT !.hoveringPointers = @ \ {<<deviceId, pointerId>>}]

hasHoveringPointer(w, deviceId, pointerId) == <<deviceId, pointerId>> \in w.hoveringPointers

hasHoveringPointers(w) == w.hoveringPointers # {}

\* ---------------------------------------------------------------- helpers
\* Index of the first element for the handle, 0 when there is none
\* (the range-for loops that return at the first match).
FirstByHandle(ws, windowHandle) ==
    IF \E i \in 1..Len(ws) : ws[i].windowHandle = windowHandle
    THEN CHOOSE i \in 1..Len(ws) :
            /\ ws[i].windowHandle = windowHandle
            /\ \A j \in 1..(i - 1) : ws[j].windowHandle # windowHandle
    ELSE 0

FirstByToken(ws, token) ==
    IF \E i \in 1..Len(ws) : getToken(ws[i].windowHandle) = token
    THEN CHOOSE i \in 1..Len(ws) :
            /\ getToken(ws[i].windowHandle) = token
            /\ \A j \in 1..(i - 1) : getToken(ws[j].windowHandle) # token
    ELSE 0

\* std::erase_if on the vector: the elements not matching, in order.
WithoutPointers(w) == w.pointerIds = {} /\ ~hasHoveringPointers(w)
NotWithoutPointers(w) == ~WithoutPointers(w)
HasTouchingPointers(w) == w.pointerIds # {}

RemoveAt(ws, i) == SubSeq(ws, 1, i - 1) \o SubSeq(ws, i + 1, Len(ws))

\* ---------------------------------------------------------------- TouchState operations
reset == << >>

\* Variant: the entries left without a touching pointer are erased.
removeTouchedPointer_prunes(ws, pointerId) ==
    SelectSeq([i \in 1..Len(ws) |-> removeTouchingPointer(ws[i], pointerId)],
              HasTouchingPointers)

removeTouchedPointer(ws, pointerId) ==
    [i \in 1..Len(ws) |-> removeTouchingPointer(ws[i], pointerId)]

\* Variant: the entry is looked up by the token of the handle.
removeTouchedPointerFromWindow_byToken(ws, pointerId, windowHandle) ==
    LET i == FirstByToken(ws, getToken(windowHandle))
    IN  IF i = 0 THEN ws
        ELSE [ws EXCEPT ![i] = removeTouchingPointer(@, pointerId)]

removeTouchedPointerFromWindow(ws, pointerId, windowHandle) ==
    LET i == FirstByHandle(ws, windowHandle)
    IN  IF i = 0 THEN ws
        ELSE [ws EXCEPT ![i] = removeTouchingPointer(@, pointerId)]

clearHoveringPointers(ws) ==
    [i \in 1..Len(ws) |-> TouchedWindow_clearHoveringPointers(ws[i])]

\* Variant: the negation of hasHoveringPointers() dropped from the predicate.
PrunesHovering(w) == ~(w.pointerIds = {} /\ hasHoveringPointers(w))
clearWindowsWithoutPointers_predicateSlip(ws) == SelectSeq(ws, PrunesHovering)

clearWindowsWithoutPointers(ws) == SelectSeq(ws, NotWithoutPointers)

NewTouchedWindow(windowHandle, targetFlags, pointerIds, firstDownTimeInTarget) ==
    [TouchedWindow(windowHandle) EXCEPT
        !.targetFlags = targetFlags,
        !.pointerIds = pointerIds,
        !.firstDownTimeInTarget = firstDownTimeInTarget]

\* Variant: the return after updating the matching entry is missing.
addOrUpdateWindow_noReturn(ws, windowHandle, targetFlags, pointerIds, firstDownTimeInTarget) ==
    LET i == FirstByHandle(ws, windowHandle)
        updated ==
            IF i # 0
            THEN [ws EXCEPT ![i] =
                    [@ EXCEPT
                        !.targetFlags =
                            IF DISPATCH_AS_SLIPPERY_EXIT \in targetFlags
                            THEN (@ \cup targetFlags) \ {DISPATCH_AS_IS}
                            ELSE @ \cup targetFlags,
                        !.pointerIds = @ \cup pointerIds,
                        !.firstDownTimeInTarget =
                            IF @ = {} THEN firstDownTimeInTarget ELSE @]]
            ELSE ws
    IN  Append(updated, NewTouchedWindow(windowHandle, targetFlags, pointerIds,
                                         firstDownTimeInTarget))

\* Variant: the has_value() test dropped, the down time is always assigned.
addOrUpdateWindow_overwriteDownTime(ws, windowHandle, targetFlags, pointerIds, firstDownTimeInTarget) ==
    LET i == FirstByHandle(ws, windowHandle)
    IN  IF i # 0
        THEN [ws EXCEPT ![i] =
                [@ EXCEPT
                    !.targetFlags =
                        IF DISPATCH_AS_SLIPPERY_EXIT \in targetFlags
                        THEN (@ \cup targetFlags) \ {DISPATCH_AS_IS}
                        ELSE @ \cup targetFlags,
                    !.pointerIds = @ \cup pointerIds,
                    !.firstDownTimeInTarget = firstDownTimeInTarget]]
        ELSE Append(ws, NewTouchedWindow(windowHandle, targetFlags, pointerIds,
                                         firstDownTimeInTarget))

\* Variant: pointerIds assigned instead of or-ed into the entry.
addOrUpdateWindow_assignPointers(ws, windowHandle, targetFlags, pointerIds, firstDownTimeInTarget) ==
    LET i == FirstByHandle(ws, windowHandle)
    IN  IF i # 0
        THEN [ws EXCEPT ![i] =
                [@ EXCEPT
                    !.targetFlags =
                        IF DISPATCH_AS_SLIPPERY_EXIT \in targetFlags
                        THEN (@ \cup targetFlags) \ {DISPATCH_AS_IS}
                        ELSE @ \cup targetFlags,
                    !.pointerIds = pointerIds,
                    !.firstDownTimeInTarget =
                        IF @ = {} THEN firstDownTimeInTarget ELSE @]]
        ELSE Append(ws, NewTouchedWindow(windowHandle, targetFlags, pointerIds,
                                         firstDownTimeInTarget))

\* Variant: a new entry is put in front of the vector.
addOrUpdateWindow_pushFront(ws, windowHandle, targetFlags, pointerIds, firstDownTimeInTarget) ==
    LET i == FirstByHandle(ws, windowHandle)
    IN  IF i # 0
        THEN [ws EXCEPT ![i] =
                [@ EXCEPT
                    !.targetFlags =
                        IF DISPATCH_AS_SLIPPERY_EXIT \in targetFlags
                        THEN (@ \cup targetFlags) \ {DISPATCH_AS_IS}
                        ELSE @ \cup targetFlags,
                    !.pointerIds = @ \cup pointerIds,
                    !.firstDownTimeInTarget =
                        IF @ = {} THEN firstDownTimeInTarget ELSE @]]
        ELSE <<NewTouchedWindow(windowHandle, targetFlags, pointerIds,
                                firstDownTimeInTarget)>> \o ws

\* Variant: the entry to update is looked up by the token of the handle.
addOrUpdateWindow_byToken(ws, windowHandle, targetFlags, pointerIds, firstDownTimeInTarget) ==
    LET i == FirstByToken(ws, getToken(windowHandle))
    IN  IF i # 0
        THEN [ws EXCEPT ![i] =
                [@ EXCEPT
                    !.targetFlags =
                        IF DISPATCH_AS_SLIPPERY_EXIT \in targetFlags
                        THEN (@ \cup targetFlags) \ {DISPATCH_AS_IS}
                        ELSE @ \cup targetFlags,
                    !.pointerIds = @ \cup pointerIds,
                    !.firstDownTimeInTarget =
                        IF @ = {} THEN firstDownTimeInTarget ELSE @]]
        ELSE Append(ws, NewTouchedWindow(windowHandle, targetFlags, pointerIds,
                                         firstDownTimeInTarget))

\* Variant: DISPATCH_AS_IS cleared before the flags of the call are or-ed in.
addOrUpdateWindow_clearBeforeOr(ws, windowHandle, targetFlags, pointerIds, firstDownTimeInTarget) ==
    LET i == FirstByHandle(ws, windowHandle)
    IN  IF i # 0
        THEN [ws EXCEPT ![i] =
                [@ EXCEPT
                    !.targetFlags =
                        IF DISPATCH_AS_SLIPPERY_EXIT \in targetFlags
                        THEN (@ \ {DISPATCH_AS_IS}) \cup targetFlags
                        ELSE @ \cup targetFlags,
                    !.pointerIds = @ \cup pointerIds,
                    !.firstDownTimeInTarget =
                        IF @ = {} THEN firstDownTimeInTarget ELSE @]]
        ELSE Append(ws, NewTouchedWindow(windowHandle, targetFlags, pointerIds,
                                         firstDownTimeInTarget))

addOrUpdateWindow(ws, windowHandle, targetFlags, pointerIds, firstDownTimeInTarget) ==
    LET i == FirstByHandle(ws, windowHandle)
    IN  IF i # 0
        THEN [ws EXCEPT ![i] =
                [@ EXCEPT
                    !.targetFlags =
                        IF DISPATCH_AS_SLIPPERY_EXIT \in targetFlags
                        THEN (@ \cup targetFlags) \ {DISPATCH_AS_IS}
                        ELSE @ \cup targetFlags,
                    !.pointerIds = @ \cup pointerIds,
                    !.firstDownTimeInTarget =
                        IF @ = {} THEN firstDownTimeInTarget ELSE @]]
        ELSE Append(ws, NewTouchedWindow(windowHandle, targetFlags, pointerIds,
                                         firstDownTimeInTarget))

addHoveringPointerToWindow(ws, windowHandle, hoveringDeviceId, hoveringPointerId) ==
    LET i == FirstByHandle(ws, windowHandle)
    IN  IF i # 0
        THEN [ws EXCEPT ![i] = addHoveringPointer(@, hoveringDeviceId, hoveringPointerId)]
        ELSE Append(ws, addHoveringPointer(TouchedWindow(windowHandle),
                                           hoveringDeviceId, hoveringPointerId))

\* Variant: the return after the erase is missing, every entry with the
\* token is erased.
removeWindowByToken_noReturn(ws, token) ==
    LET OtherToken(w) == getToken(w.windowHandle) # token
    IN  SelectSeq(ws, OtherToken)

removeWindowByToken(ws, token) ==
    LET i == FirstByToken(ws, token)
    IN  IF i = 0 THEN ws ELSE RemoveAt(ws, i)

FilterKeeps(w) == w.targetFlags \cap {DISPATCH_AS_IS, DISPATCH_AS_SLIPPERY_ENTER} # {}

\* Variant: DISPATCH_AS_IS or-ed in without clearing DISPATCH_MASK first.
filterNonAsIsTouchWindows_noClear(ws) ==
    LET kept == SelectSeq(ws, FilterKeeps)
    IN  [i \in 1..Len(kept) |->
            [kept[i] EXCEPT !.targetFlags = @ \cup {DISPATCH_AS_IS}]]

filterNonAsIsTouchWindows(ws) ==
    LET kept == SelectSeq(ws, FilterKeeps)
    IN  [i \in 1..Len(kept) |->
            [kept[i] EXCEPT !.targetFlags = (@ \ DISPATCH_MASK) \cup {DISPATCH_AS_IS}]]

cancelPointersForWindowsExcept(ws, pointerIds, token) ==
    IF pointerIds = {} THEN ws
    ELSE LET cleared ==
                [i \in 1..Len(ws) |->
                    IF getToken(ws[i].windowHandle) # token
                    THEN [ws[i] EXCEPT !.pointerIds = @ \ pointerIds]
                    ELSE ws[i]]
         IN  SelectSeq(cleared, HasTouchingPointers)

\* a ^ b on bitsets
Xor(a, b) == (a \ b) \cup (b \ a)

AllPilferedPointerIds(ws) == UNION {ws[i].pilferedPointerIds : i \in 1..Len(ws)}

\* Variant: the erase_if also requires !hasHoveringPointers().
cancelPointersForNonPilferingWindows_keepsHovering(ws) ==
    LET allPilferedPointerIds == AllPilferedPointerIds(ws)
    IN  IF allPilferedPointerIds = {} THEN ws
        ELSE LET cleared ==
                    [i \in 1..Len(ws) |->
                        LET pilferedByOtherWindows ==
                                Xor(ws[i].pilferedPointerIds, allPilferedPointerIds)
                        IN  [ws[i] EXCEPT !.pointerIds = @ \ pilferedByOtherWindows]]
             IN  SelectSeq(cleared, NotWithoutPointers)

\* Variant: & in place of ^ when computing pilferedByOtherWindows.
cancelPointersForNonPilferingWindows_and(ws) ==
    LET allPilferedPointerIds == AllPilferedPointerIds(ws)
    IN  IF allPilferedPointerIds = {} THEN ws
        ELSE LET cleared ==
                    [i \in 1..Len(ws) |->
                        LET pilferedByOtherWindows ==
                                ws[i].pilferedPointerIds \cap allPilferedPointerIds
                        IN  [ws[i] EXCEPT !.pointerIds = @ \ pilferedByOtherWindows]]
             IN  SelectSeq(cleared, HasTouchingPointers)

\* Variant: every pilfered pointer is cleared from every window, the
\* pilfering ones included.
cancelPointersForNonPilferingWindows_all(ws) ==
    LET allPilferedPointerIds == AllPilferedPointerIds(ws)
    IN  IF allPilferedPointerIds = {} THEN ws
        ELSE LET cleared ==
                    [i \in 1..Len(ws) |->
                        [ws[i] EXCEPT !.pointerIds = @ \ allPilferedPointerIds]]
             IN  SelectSeq(cleared, HasTouchingPointers)

cancelPointersForNonPilferingWindows(ws) ==
    LET allPilferedPointerIds == AllPilferedPointerIds(ws)
    IN  IF allPilferedPointerIds = {} THEN ws
        ELSE LET cleared ==
                    [i \in 1..Len(ws) |->
                        LET pilferedByOtherWindows ==
                                Xor(ws[i].pilferedPointerIds, allPilferedPointerIds)
                        IN  [ws[i] EXCEPT !.pointerIds = @ \ pilferedByOtherWindows]]
             IN  SelectSeq(cleared, HasTouchingPointers)

\* Variant: the erase_if after the loop is missing.
removeHoveringPointer_noPrune(ws, hoveringDeviceId, hoveringPointerId) ==
    [i \in 1..Len(ws) |->
        TouchedWindow_removeHoveringPointer(ws[i], hoveringDeviceId, hoveringPointerId)]

removeHoveringPointer(ws, hoveringDeviceId, hoveringPointerId) ==
    LET removed ==
            [i \in 1..Len(ws) |->
                TouchedWindow_removeHoveringPointer(ws[i], hoveringDeviceId, hoveringPointerId)]
    IN  SelectSeq(removed, NotWithoutPointers)

\* Variant: the haveSlipperyForegroundWindow test dropped from the loop.
isSlippery_noHaveTest(ws) ==
    LET foreground == {i \in 1..Len(ws) : FOREGROUND \in ws[i].targetFlags}
    IN  /\ foreground # {}
        /\ \A i \in foreground : inputConfigSlippery(ws[i].windowHandle)

\* The loop of isSlippery from element i on, with the value of
\* haveSlipperyForegroundWindow so far.
RECURSIVE isSlipperyFrom(_, _, _)
isSlipperyFrom(ws, i, haveSlipperyForegroundWindow) ==
    IF i > Len(ws) THEN haveSlipperyForegroundWindow
    ELSE IF FOREGROUND \in ws[i].targetFlags
         THEN IF haveSlipperyForegroundWindow \/ ~inputConfigSlippery(ws[i].windowHandle)
              THEN FALSE
              ELSE isSlipperyFrom(ws, i + 1, TRUE)
         ELSE isSlipperyFrom(ws, i + 1, haveSlipperyForegroundWindow)

isSlippery(ws) == isSlipperyFrom(ws, 1, FALSE)

\* Variant: the entry is looked up by the token of the handle.
getTouchedWindow_byToken(ws, windowHandle) ==
    LET i == FirstByToken(ws, getToken(windowHandle))
    IN  IF i = 0 THEN [fatal |-> TRUE, returned |-> {}]
        ELSE [fatal |-> FALSE, returned |-> {ws[i]}]

\* The outcome of getTouchedWindow: LOG_ALWAYS_FATAL_IF aborts the process
\* (fatal), else the entry is returned.
getTouchedWindow(ws, windowHandle) ==
    LET i == FirstByHandle(ws, windowHandle)
    IN  IF i = 0 THEN [fatal |-> TRUE, returned |-> {}]
        ELSE [fatal |-> FALSE, returned |-> {ws[i]}]

\* The handles of the entries that have the hovering pointer, in order.
getWindowsWithHoveringPointer(ws, hoveringDeviceId, pointerId) ==
    LET Hovers(w) == hasHoveringPointer(w, hoveringDeviceId, pointerId)
        hovering == SelectSeq(ws, Hovers)
    IN  [i \in 1..Len(hovering) |-> hovering[i].windowHandle]

\* The dispatcher marks pointers as pilfered by writing the public field
\* TouchedWindow::pilferedPointerIds of the first entry for the handle.
pilferPointers(ws, windowHandle, pointerIds) ==
    LET i == FirstByHandle(ws, windowHandle)
    IN  IF i = 0 THEN ws
        ELSE [ws EXCEPT ![i] = [@ EXCEPT !.pilferedPointerIds = @ \cup pointerIds]]

\* ---------------------------------------------------------------- actions
NoHandle == "-"
NoToken == "-"

\* The record of a call: the operation and its arguments.  follows is set for
\* addOrUpdateWindow only: the arguments of the directly preceding call when that
\* call was the addOrUpdateWindow that created the entry of the same handle.
\* returned holds the value a query returned; fatal is set when the call
\* aborted the process.
Call(op, windowHandle, token, targetFlags, pointerIds, time, hover) ==
    [op |-> op, windowHandle |-> windowHandle, token |-> token,
     targetFlags |-> targetFlags, pointerIds |-> pointerIds, time |-> time,
     hover |-> hover, follows |-> {}, returned |-> {}, fatal |-> FALSE]

\* No call is made after the process was aborted.
Recorded(call) ==
    /\ ~last.fatal
    /\ pre' = windows
    /\ last' = call

Reset ==
    /\ windows' = reset
    /\ Recorded(Call("reset", NoHandle, NoToken, {}, {}, {}, {}))

RemoveTouchedPointer(pointerId) ==
    /\ windows' = removeTouchedPointer(windows, pointerId)
    /\ Recorded(Call("removeTouchedPointer", NoHandle, NoToken, {}, {pointerId}, {}, {}))

RemoveTouchedPointerFromWindow(pointerId, windowHandle) ==
    /\ windows' = removeTouchedPointerFromWindow(windows, pointerId, windowHandle)
    /\ Recorded(Call("removeTouchedPointerFromWindow", windowHandle, NoToken, {},
                     {pointerId}, {}, {}))

ClearHoveringPointers ==
    /\ windows' = clearHoveringPointers(windows)
    /\ Recorded(Call("clearHoveringPointers", NoHandle, NoToken, {}, {}, {}, {}))

ClearWindowsWithoutPointers ==
    /\ windows' = clearWindowsWithoutPointers(windows)
    /\ Recorded(Call("clearWindowsWithoutPointers", NoHandle, NoToken, {}, {}, {}, {}))

AddOrUpdateWindow(windowHandle, targetFlags, pointerIds, firstDownTimeInTarget) ==
    /\ windows' = addOrUpdateWindow(windows, windowHandle, targetFlags, pointerIds,
                                    firstDownTimeInTarget)
    /\ Recorded([Call("addOrUpdateWindow", windowHandle, NoToken, targetFlags, pointerIds,
                      firstDownTimeInTarget, {})
                 EXCEPT !.follows =
                    IF /\ last.op = "addOrUpdateWindow"
                       /\ last.windowHandle = windowHandle
                       /\ FirstByHandle(pre, windowHandle) = 0
                    THEN {<<last.targetFlags, last.pointerIds, last.time>>}
                    ELSE {}])

AddHoveringPointerToWindow(windowHandle, hoveringDeviceId, hoveringPointerId) ==
    /\ windows' = addHoveringPointerToWindow(windows, windowHandle, hoveringDeviceId,
                                             hoveringPointerId)
    /\ Recorded(Call("addHoveringPointerToWindow", windowHandle, NoToken, {}, {}, {},
                     {<<hoveringDeviceId, hoveringPointerId>>}))

RemoveWindowByToken(token) ==
    /\ windows' = removeWindowByToken(windows, token)
    /\ Recorded(Call("removeWindowByToken", NoHandle, token, {}, {}, {}, {}))

FilterNonAsIsTouchWindows ==
    /\ windows' = filterNonAsIsTouchWindows(windows)
    /\ Recorded(Call("filterNonAsIsTouchWindows", NoHandle, NoToken, {}, {}, {}, {}))

CancelPointersForWindowsExcept(pointerIds, token) ==
    /\ windows' = cancelPointersForWindowsExcept(windows, pointerIds, token)
    /\ Recorded(Call("cancelPointersForWindowsExcept", NoHandle, token, {}, pointerIds,
                     {}, {}))

CancelPointersForNonPilferingWindows ==
    /\ windows' = cancelPointersForNonPilferingWindows(windows)
    /\ Recorded(Call("cancelPointersForNonPilferingWindows", NoHandle, NoToken, {}, {},
                     {}, {}))

RemoveHoveringPointer(hoveringDeviceId, hoveringPointerId) ==
    /\ windows' = removeHoveringPointer(windows, hoveringDeviceId, hoveringPointerId)
    /\ Recorded(Call("removeHoveringPointer", NoHandle, NoToken, {}, {}, {},
                     {<<hoveringDeviceId, hoveringPointerId>>}))

PilferPointers(windowHandle, pointerIds) ==
    /\ windows' = pilferPointers(windows, windowHandle, pointerIds)
    /\ Recorded(Call("pilferPointers", windowHandle, NoToken, {}, pointerIds, {}, {}))

IsSlippery ==
    /\ windows' = windows
    /\ Recorded([Call("isSlippery", NoHandle, NoToken, {}, {}, {}, {})
                    EXCEPT !.returned = {isSlippery(windows)}])

GetTouchedWindow(windowHandle) ==
    /\ windows' = windows
    /\ Recorded([Call("getTouchedWindow", windowHandle, NoToken, {}, {}, {}, {})
                    EXCEPT !.returned = getTouchedWindow(windows, windowHandle).returned,
                           !.fatal = getTouchedWindow(windows, windowHandle).fatal])

\* ---------------------------------------------------------------- specifications
Init ==
    /\ windows = << >>
    /\ pre = << >>
    /\ last = Call("TouchState", NoHandle, NoToken, {}, {}, {}, {})

\* The general specification: every operation, on three handles of which two
\* share a token; one target-flag value, one touching and hovering pointer, no
\* down time; only hB pilfers.
GenFlags == {{FOREGROUND, DISPATCH_AS_IS}}
GenPointers == {0}
GenHover == {<<"stylus", 0>>}
GenPilferers == {"hB"}

Next ==
    \/ Reset
    \/ \E p \in GenPointers : RemoveTouchedPointer(p)
    \/ \E p \in GenPointers, h \in Handles : RemoveTouchedPointerFromWindow(p, h)
    \/ ClearHoveringPointers
    \/ ClearWindowsWithoutPointers
    \/ \E h \in Handles, f \in GenFlags, ids \in SUBSET GenPointers :
            AddOrUpdateWindow(h, f, ids, {})
    \/ \E h \in Handles, hp \in GenHover : AddHoveringPointerToWindow(h, hp[1], hp[2])
    \/ \E token \in Tokens : RemoveWindowByToken(token)
    \/ FilterNonAsIsTouchWindows
    \/ \E ids \in SUBSET GenPointers, token \in Tokens :
            CancelPointersForWindowsExcept(ids, token)
    \/ CancelPointersForNonPilferingWindows
    \/ \E hp \in GenHover : RemoveHoveringPointer(hp[1], hp[2])
    \/ \E h \in GenPilferers, p \in GenPointers : PilferPointers(h, {p})

Spec == Init /\ [][Next]_vars

\* The down-time specification: every operation, on two handles with
\* different tokens, with every down time.
TimeHandles == {"hA1", "hB"}

NextDownTime ==
    \/ Reset
    \/ \E p \in GenPointers : RemoveTouchedPointer(p)
    \/ \E p \in GenPointers, h \in TimeHandles : RemoveTouchedPointerFromWindow(p, h)
    \/ ClearHoveringPointers
    \/ ClearWindowsWithoutPointers
    \/ \E h \in TimeHandles, f \in GenFlags, ids \in SUBSET GenPointers, t \in OptTimes :
            AddOrUpdateWindow(h, f, ids, t)
    \/ \E h \in TimeHandles, hp \in GenHover : AddHoveringPointerToWindow(h, hp[1], hp[2])
    \/ \E token \in Tokens : RemoveWindowByToken(token)
    \/ FilterNonAsIsTouchWindows
    \/ \E ids \in SUBSET GenPointers, token \in Tokens :
            CancelPointersForWindowsExcept(ids, token)
    \/ CancelPointersForNonPilferingWindows
    \/ \E hp \in GenHover : RemoveHoveringPointer(hp[1], hp[2])
    \/ \E h \in GenPilferers, p \in GenPointers : PilferPointers(h, {p})

SpecDownTime == Init /\ [][NextDownTime]_vars

\* The target-flag specification: addOrUpdateWindow with every down time, with
\* pointer sets of at most one pointer and with target flags of at most one
\* dispatch mode, on hA1; hA2 is only added; the operations that read flags or
\* remove entries.
FlagInputs ==
    {{}, {DISPATCH_AS_IS}, {DISPATCH_AS_SLIPPERY_EXIT},
     {FOREGROUND, DISPATCH_AS_IS}, {FOREGROUND, DISPATCH_AS_SLIPPERY_EXIT}}
AddPointerSets == {{}} \cup {{p} : p \in PointerIdRange}

NextFlags ==
    \/ Reset
    \/ \E f \in FlagInputs, ids \in AddPointerSets, t \in OptTimes :
            AddOrUpdateWindow("hA1", f, ids, t)
    \/ AddOrUpdateWindow("hA2", {DISPATCH_AS_OUTSIDE}, {0}, {})
    \/ RemoveWindowByToken("tA")
    \/ FilterNonAsIsTouchWindows

SpecFlags == Init /\ [][NextFlags]_vars

\* The cancel specification: cancelPointersForWindowsExcept with every pointer
\* set and token, on entries of three handles that touch or hover; every
\* entry is created with a pointer.
TouchingPointerSets == (SUBSET PointerIdRange) \ {{}}

NextCancel ==
    \/ Reset
    \/ \E h \in Handles, ids \in TouchingPointerSets :
            AddOrUpdateWindow(h, {DISPATCH_AS_IS}, ids, {})
    \/ \E h \in Handles, hp \in GenHover : AddHoveringPointerToWindow(h, hp[1], hp[2])
    \/ \E ids \in SUBSET PointerIdRange, token \in Tokens :
            CancelPointersForWindowsExcept(ids, token)

SpecCancel == Init /\ [][NextCancel]_vars

\* The pilfer specification: cancelPointersForNonPilferingWindows on entries of
\* two handles that touch, hover and pilfer every pointer.
PilferHandles == {"hA1", "hB"}

NextPilfer ==
    \/ Reset
    \/ \E h \in PilferHandles, ids \in AddPointerSets :
            AddOrUpdateWindow(h, {DISPATCH_AS_IS}, ids, {})
    \/ \E h \in PilferHandles, hp \in GenHover :
            AddHoveringPointerToWindow(h, hp[1], hp[2])
    \/ \E h \in PilferHandles, p \in PointerIdRange : PilferPointers(h, {p})
    \/ CancelPointersForNonPilferingWindows

SpecPilfer == Init /\ [][NextPilfer]_vars

\* The dispatch-mode specification: addOrUpdateWindow on hA1 with every
\* dispatch mode, also two modes in one call, and on hB with a mode the
\* filter keeps and one it drops; entries that touch, hover and have a down
\* time; filterNonAsIsTouchWindows.
ModeHandles == {"hA1", "hB"}
ModeInputs ==
    {{FOREGROUND, DISPATCH_AS_IS}, {DISPATCH_AS_OUTSIDE}, {DISPATCH_AS_SLIPPERY_ENTER},
     {DISPATCH_AS_SLIPPERY_EXIT}, {DISPATCH_AS_IS, DISPATCH_AS_SLIPPERY_EXIT}}
ModeInputsB == {{DISPATCH_AS_OUTSIDE}, {FOREGROUND, DISPATCH_AS_SLIPPERY_ENTER}}
ModeTimes == {{}, {MaxTime}}

NextModes ==
    \/ Reset
    \/ \E f \in ModeInputs, ids \in SUBSET GenPointers, t \in ModeTimes :
            AddOrUpdateWindow("hA1", f, ids, t)
    \/ \E f \in ModeInputsB : AddOrUpdateWindow("hB", f, GenPointers, {})
    \/ \E h \in ModeHandles, hp \in GenHover : AddHoveringPointerToWindow(h, hp[1], hp[2])
    \/ FilterNonAsIsTouchWindows

SpecModes == Init /\ [][NextModes]_vars

\* The query specification: isSlippery, getTouchedWindow and the removals by
\* handle and by token on entries of three handles, with and without
\* FOREGROUND, that touch or hover; hA1 and hA2 share a token, hA2 is not
\* slippery.
QueryFlags == {{FOREGROUND, DISPATCH_AS_IS}, {DISPATCH_AS_IS}}

NextQuery ==
    \/ Reset
    \/ \E h \in Handles, f \in QueryFlags : AddOrUpdateWindow(h, f, GenPointers, {})
    \/ \E h \in Handles, hp \in GenHover : AddHoveringPointerToWindow(h, hp[1], hp[2])
    \/ \E token \in Tokens : RemoveWindowByToken(token)
    \/ \E p \in GenPointers, h \in Handles : RemoveTouchedPointerFromWindow(p, h)
    \/ IsSlippery
    \/ \E h \in Handles : GetTouchedWindow(h)

SpecQuery == Init /\ [][NextQuery]_vars

\* The hover specification: entries of two handles that touch with every
\* pointer and hover with two devices; the operations that remove touching
\* or hovering pointers.
HoverHandles == {"hA1", "hB"}
HoverInputs == {<<"stylus", 0>>, <<"mouse", 0>>}

NextHover ==
    \/ Reset
    \/ \E p \in PointerIdRange : RemoveTouchedPointer(p)
    \/ ClearHoveringPointers
    \/ ClearWindowsWithoutPointers
    \/ \E h \in HoverHandles, ids \in AddPointerSets :
            AddOrUpdateWindow(h, {DISPATCH_AS_IS}, ids, {})
    \/ \E h \in HoverHandles, hp \in HoverInputs :
            AddHoveringPointerToWindow(h, hp[1], hp[2])
    \/ \E hp \in HoverInputs : RemoveHoveringPointer(hp[1], hp[2])

SpecHover == Init /\ [][NextHover]_vars

\* ---------------------------------------------------------------- properties
Position(ws, windowHandle) == FirstByHandle(ws, windowHandle)
Present(ws, windowHandle) == Position(ws, windowHandle) # 0
Entry(ws, windowHandle) == ws[Position(ws, windowHandle)]

\* C1: in every reachable state no two entries of windows have the same
\* window handle, also when distinct handles share one token.
C1_UniqueHandles ==
    \A i, j \in 1..Len(windows) :
        i # j => windows[i].windowHandle # windows[j].windowHandle

\* addOrUpdateWindow was called for a handle that already had an entry, while
\* another entry holds a different handle with the same token.
C1_Witness ==
    /\ last.op = "addOrUpdateWindow"
    /\ Present(pre, last.windowHandle)
    /\ \E i, j \in 1..Len(windows) :
            /\ windows[i].windowHandle # windows[j].windowHandle
            /\ getToken(windows[i].windowHandle) = getToken(windows[j].windowHandle)

\* C2 as stated: after every operation no entry has both an empty touching set
\* and an empty hovering set.
C2_NoEntryWithoutPointers ==
    \A i \in 1..Len(windows) : ~WithoutPointers(windows[i])

\* C2 amended: no entry has both sets empty right after an operation that
\* prunes: clearWindowsWithoutPointers, removeHoveringPointer, reset,
\* cancelPointersForWindowsExcept with a non-empty pointer set, and
\* cancelPointersForNonPilferingWindows when some pointer is pilfered.
Prunes ==
    \/ last.op \in {"clearWindowsWithoutPointers", "removeHoveringPointer", "reset"}
    \/ last.op = "cancelPointersForWindowsExcept" /\ last.pointerIds # {}
    \/ last.op = "cancelPointersForNonPilferingWindows" /\ AllPilferedPointerIds(pre) # {}

C2_NoEntryWithoutPointersAfterPruning ==
    Prunes => \A i \in 1..Len(windows) : ~WithoutPointers(windows[i])

\* clearWindowsWithoutPointers dropped an entry left without pointers and kept
\* another one.
C2_Witness ==
    /\ last.op = "clearWindowsWithoutPointers"
    /\ \E i \in 1..Len(pre) : WithoutPointers(pre[i])
    /\ Len(windows) < Len(pre)
    /\ windows # << >>

\* C5: no operation reorders entries: two entries present before and after an
\* operation keep their relative order, and an entry created by
\* addOrUpdateWindow or addHoveringPointerToWindow comes after every entry that
\* existed before the call.
C5_OrderPreserved ==
    /\ \A a, b \in Handles :
            ( /\ Present(pre, a) /\ Present(pre, b)
              /\ Present(windows, a) /\ Present(windows, b)
              /\ Position(pre, a) < Position(pre, b) )
            => Position(windows, a) < Position(windows, b)
    /\ \A a, b \in Handles :
            ( /\ ~Present(pre, a) /\ Present(windows, a)
              /\ Present(pre, b) /\ Present(windows, b) )
            => Position(windows, b) < Position(windows, a)

\* addOrUpdateWindow created a third entry behind two existing ones.
C5_Witness ==
    /\ last.op = "addOrUpdateWindow"
    /\ ~Present(pre, last.windowHandle)
    /\ Len(pre) = 2
    /\ Len(windows) = 3

\* C3: an entry that has a firstDownTimeInTarget before an operation and is
\* still present after it has the same value; addOrUpdateWindow fills the
\* value in when the entry has none.
C3_FirstDownTimeKept ==
    /\ \A h \in Handles :
            ( /\ Present(pre, h) /\ Present(windows, h)
              /\ Entry(pre, h).firstDownTimeInTarget # {} )
            => Entry(windows, h).firstDownTimeInTarget = Entry(pre, h).firstDownTimeInTarget
    /\ ( /\ last.op = "addOrUpdateWindow"
         /\ Present(pre, last.windowHandle)
         /\ Entry(pre, last.windowHandle).firstDownTimeInTarget = {} )
       => Entry(windows, last.windowHandle).firstDownTimeInTarget = last.time

\* addOrUpdateWindow was called with another down time for an entry that had one.
C3_Witness ==
    /\ last.op = "addOrUpdateWindow"
    /\ Present(pre, last.windowHandle)
    /\ Entry(pre, last.windowHandle).firstDownTimeInTarget # {}
    /\ last.time # {}
    /\ last.time # Entry(pre, last.windowHandle).firstDownTimeInTarget

\* C4: in every reachable state an entry whose flags contain
\* DISPATCH_AS_SLIPPERY_EXIT does not contain DISPATCH_AS_IS.
C4_SlipperyExitExcludesAsIs ==
    \A i \in 1..Len(windows) :
        DISPATCH_AS_SLIPPERY_EXIT \in windows[i].targetFlags
            => DISPATCH_AS_IS \notin windows[i].targetFlags

\* The two calls of C6: the last call is addOrUpdateWindow(w, f2, P2, T2) and
\* directly follows the addOrUpdateWindow(w, f1, P1, T1), T1 present, that
\* created the entry of w.
C6_TwoCalls == last.op = "addOrUpdateWindow" /\ \E c \in last.follows : c[3] # {}
C6_f1 == (CHOOSE c \in last.follows : TRUE)[1]
C6_P1 == (CHOOSE c \in last.follows : TRUE)[2]
C6_T1 == (CHOOSE c \in last.follows : TRUE)[3]
C6_Entries == {i \in 1..Len(windows) : windows[i].windowHandle = last.windowHandle}

\* C6 as stated: after the two calls there is exactly one entry for w, with
\* flags f1 | f2, touching set P1 union P2 and firstDownTimeInTarget T1.
C6_UnionOfBothCalls ==
    C6_TwoCalls =>
        /\ Cardinality(C6_Entries) = 1
        /\ \A i \in C6_Entries :
            /\ windows[i].targetFlags = C6_f1 \cup last.targetFlags
            /\ windows[i].pointerIds = C6_P1 \cup last.pointerIds
            /\ windows[i].firstDownTimeInTarget = C6_T1

\* C6 amended: as stated, except that the flags are f1 | f2 without
\* DISPATCH_AS_IS when f2 contains DISPATCH_AS_SLIPPERY_EXIT.
C6_UnionOfBothCallsExitClearsAsIs ==
    C6_TwoCalls =>
        /\ Cardinality(C6_Entries) = 1
        /\ \A i \in C6_Entries :
            /\ windows[i].targetFlags =
                    IF DISPATCH_AS_SLIPPERY_EXIT \in last.targetFlags
                    THEN (C6_f1 \cup last.targetFlags) \ {DISPATCH_AS_IS}
                    ELSE C6_f1 \cup last.targetFlags
            /\ windows[i].pointerIds = C6_P1 \cup last.pointerIds
            /\ windows[i].firstDownTimeInTarget = C6_T1

\* The two calls with different pointers and different down times, the first
\* with DISPATCH_AS_IS and the second with DISPATCH_AS_SLIPPERY_EXIT, beside
\* an entry of another handle.
C6_Witness ==
    /\ C6_TwoCalls
    /\ DISPATCH_AS_IS \in C6_f1
    /\ DISPATCH_AS_SLIPPERY_EXIT \in last.targetFlags
    /\ C6_P1 # {} /\ last.pointerIds # {} /\ C6_P1 # last.pointerIds
    /\ last.time # {} /\ last.time # C6_T1
    /\ Len(windows) = 2

\* C7: after cancelPointersForWindowsExcept(pointerIds, exceptToken) with
\* non-empty pointerIds no remaining entry with another token touches a pointer
\* of pointerIds, no pointer outside pointerIds is removed from a touching
\* set, and every entry with token exceptToken is still present with its
\* touching set, hover set and flags unchanged.
C7_CancelExceptToken ==
    (last.op = "cancelPointersForWindowsExcept" /\ last.pointerIds # {}) =>
        /\ \A i \in 1..Len(windows) :
                getToken(windows[i].windowHandle) # last.token
                    => windows[i].pointerIds \cap last.pointerIds = {}
        /\ \A h \in Handles :
                Present(pre, h) =>
                    \A p \in Entry(pre, h).pointerIds \ last.pointerIds :
                        Present(windows, h) /\ p \in Entry(windows, h).pointerIds
        /\ \A h \in Handles :
                (Present(pre, h) /\ getToken(h) = last.token) =>
                    /\ Present(windows, h)
                    /\ Entry(windows, h).pointerIds = Entry(pre, h).pointerIds
                    /\ Entry(windows, h).hoveringPointers = Entry(pre, h).hoveringPointers
                    /\ Entry(windows, h).targetFlags = Entry(pre, h).targetFlags

\* C8: cancelPointersForWindowsExcept removes an entry only if, after the
\* pointer bits are cleared, it has an empty touching set and an empty
\* hovering set; an entry with a hovering pointer survives with its hover set
\* unchanged; with empty pointerIds the state is unchanged.
C8_CancelPrunesOnlyWithoutPointers ==
    last.op = "cancelPointersForWindowsExcept" =>
        /\ last.pointerIds = {} => windows = pre
        /\ \A h \in Handles :
                (Present(pre, h) /\ ~Present(windows, h)) =>
                    /\ Entry(pre, h).hoveringPointers = {}
                    /\ IF getToken(h) # last.token
                       THEN Entry(pre, h).pointerIds \ last.pointerIds = {}
                       ELSE Entry(pre, h).pointerIds = {}
        /\ \A h \in Handles :
                (Present(pre, h) /\ Entry(pre, h).hoveringPointers # {}) =>
                    /\ Present(windows, h)
                    /\ Entry(windows, h).hoveringPointers = Entry(pre, h).hoveringPointers

\* C9: after cancelPointersForNonPilferingWindows no remaining entry touches a
\* pointer that some entry pilfered before the call and that it does not
\* pilfer itself; a pointer pilfered by no entry is removed from no touching
\* set; pilfered sets and hover sets of surviving entries are unchanged.
C9_PilferedPointersCancelled ==
    last.op = "cancelPointersForNonPilferingWindows" =>
        /\ \A p \in AllPilferedPointerIds(pre) :
                \A i \in 1..Len(windows) :
                    p \notin windows[i].pilferedPointerIds => p \notin windows[i].pointerIds
        /\ \A h \in Handles :
                Present(pre, h) =>
                    \A p \in Entry(pre, h).pointerIds \ AllPilferedPointerIds(pre) :
                        Present(windows, h) /\ p \in Entry(windows, h).pointerIds
        /\ \A h \in Handles :
                (Present(pre, h) /\ Present(windows, h)) =>
                    /\ Entry(windows, h).pilferedPointerIds = Entry(pre, h).pilferedPointerIds
                    /\ Entry(windows, h).hoveringPointers = Entry(pre, h).hoveringPointers

\* Two entries touched pointers 0 and 1, one pilfering 0 and the other 1;
\* each is left with the pointer it pilfers.
C9_Witness ==
    /\ last.op = "cancelPointersForNonPilferingWindows"
    /\ Len(pre) = 2 /\ Len(windows) = 2
    /\ pre[1].pointerIds = {0, 1} /\ pre[1].pilferedPointerIds = {0}
    /\ pre[2].pointerIds = {0, 1} /\ pre[2].pilferedPointerIds = {1}
    /\ windows[1].pointerIds = {0}
    /\ windows[2].pointerIds = {1}

\* C10: cancelPointersForNonPilferingWindows removes from no entry's touching
\* set a pointer that the entry itself pilfers.
C10_OwnPilferedPointersKept ==
    last.op = "cancelPointersForNonPilferingWindows" =>
        \A h \in Handles :
            Present(pre, h) =>
                \A p \in Entry(pre, h).pointerIds \cap Entry(pre, h).pilferedPointerIds :
                    Present(windows, h) /\ p \in Entry(windows, h).pointerIds

\* Two entries pilfered and touched the same pointer; after the call both
\* still touch it.
C10_Witness ==
    /\ last.op = "cancelPointersForNonPilferingWindows"
    /\ \E p \in PointerIdRange :
        \E i, j \in 1..Len(pre) :
            /\ i # j
            /\ p \in pre[i].pointerIds \cap pre[i].pilferedPointerIds
            /\ p \in pre[j].pointerIds \cap pre[j].pilferedPointerIds
            /\ \E k, l \in 1..Len(windows) :
                /\ windows[k].windowHandle = pre[i].windowHandle
                /\ windows[l].windowHandle = pre[j].windowHandle
                /\ p \in windows[k].pointerIds \cap windows[l].pointerIds

\* C11: filterNonAsIsTouchWindows keeps exactly the entries whose target
\* flags had DISPATCH_AS_IS or DISPATCH_AS_SLIPPERY_ENTER, in their order;
\* of the dispatch modes a kept entry has exactly DISPATCH_AS_IS afterwards,
\* its other flags, touching set, hovering set and down time are as before;
\* every other entry is removed, whatever pointers it has.
C11_KeptIndices ==
    {i \in 1..Len(pre) :
        pre[i].targetFlags \cap {DISPATCH_AS_IS, DISPATCH_AS_SLIPPERY_ENTER} # {}}

C11_FilterKeepsAsIsAndSlipperyEnter ==
    last.op = "filterNonAsIsTouchWindows" =>
        /\ Len(windows) = Cardinality(C11_KeptIndices)
        /\ \A i \in C11_KeptIndices :
            LET k == Cardinality({j \in C11_KeptIndices : j <= i})
            IN  /\ windows[k].windowHandle = pre[i].windowHandle
                /\ windows[k].targetFlags \cap DISPATCH_MASK = {DISPATCH_AS_IS}
                /\ windows[k].targetFlags \ DISPATCH_MASK = pre[i].targetFlags \ DISPATCH_MASK
                /\ windows[k].pointerIds = pre[i].pointerIds
                /\ windows[k].hoveringPointers = pre[i].hoveringPointers
                /\ windows[k].firstDownTimeInTarget = pre[i].firstDownTimeInTarget

\* A filter call that drops a touching first entry and keeps a hovering
\* foreground entry that had DISPATCH_AS_SLIPPERY_ENTER and not DISPATCH_AS_IS.
C11_Witness ==
    /\ last.op = "filterNonAsIsTouchWindows"
    /\ Len(pre) = 2
    /\ Len(windows) = 1
    /\ pre[1].pointerIds # {}
    /\ pre[1].targetFlags # {}
    /\ windows[1].windowHandle = pre[2].windowHandle
    /\ DISPATCH_AS_SLIPPERY_ENTER \in pre[2].targetFlags
    /\ DISPATCH_AS_IS \notin pre[2].targetFlags
    /\ FOREGROUND \in windows[1].targetFlags
    /\ windows[1].hoveringPointers # {}

\* C12: isSlippery returns true exactly when one entry of windows has
\* FOREGROUND and the window of that entry is slippery; it returns false
\* with no FOREGROUND entry, with two or more in any order (also when all are
\* slippery) and with one that is not slippery.  The state is unchanged.
C12_Foreground == {i \in 1..Len(pre) : FOREGROUND \in pre[i].targetFlags}

C12_IsSlipperyExactlyOneForeground ==
    last.op = "isSlippery" =>
        /\ last.returned =
            {/\ Cardinality(C12_Foreground) = 1
             /\ \A i \in C12_Foreground : pre[i].windowHandle \in SlipperyHandles}
        /\ windows = pre

\* isSlippery answered false for two FOREGROUND entries of slippery windows.
C12_Witness ==
    /\ last.op = "isSlippery"
    /\ last.returned = {FALSE}
    /\ Cardinality(C12_Foreground) = 2
    /\ \A i \in C12_Foreground : pre[i].windowHandle \in SlipperyHandles

\* C13: removeWindowByToken removes the first entry of windows whose handle
\* reports the token and nothing else: the entries before it and after it,
\* later entries with the same token included, stay as they were, in order.
C13_Matching == {i \in 1..Len(pre) : getToken(pre[i].windowHandle) = last.token}

C13_RemovesFirstWithToken ==
    (last.op = "removeWindowByToken" /\ C13_Matching # {}) =>
        \E i \in C13_Matching :
            /\ \A j \in C13_Matching : i <= j
            /\ Len(windows) = Len(pre) - 1
            /\ \A k \in 1..(i - 1) : windows[k] = pre[k]
            /\ \A k \in i..Len(windows) : windows[k] = pre[k + 1]

\* Two entries had the token; the later one is still there, after an entry
\* of another token.
C13_Witness ==
    /\ last.op = "removeWindowByToken"
    /\ Cardinality(C13_Matching) = 2
    /\ Len(pre) = 3
    /\ Len(windows) = 2
    /\ getToken(windows[1].windowHandle) # last.token
    /\ getToken(windows[2].windowHandle) = last.token

\* C14: getTouchedWindow aborts the process exactly when no entry of windows
\* has the handle passed (an entry of another handle with the same token does
\* not count); otherwise it returns the entry of that handle.  The state is
\* unchanged.
C14_FatalIffNoEntryForHandle ==
    last.op = "getTouchedWindow" =>
        /\ last.fatal <=> ~(\E i \in 1..Len(pre) : pre[i].windowHandle = last.windowHandle)
        /\ ~last.fatal =>
                \E i \in 1..Len(pre) :
                    /\ pre[i].windowHandle = last.windowHandle
                    /\ last.returned = {pre[i]}
        /\ windows = pre

\* getTouchedWindow aborted for a handle with no entry while an entry of
\* another handle with the same token was there.
C14_Witness ==
    /\ last.op = "getTouchedWindow"
    /\ last.fatal
    /\ \E i \in 1..Len(pre) :
            /\ pre[i].windowHandle # last.windowHandle
            /\ getToken(pre[i].windowHandle) = getToken(last.windowHandle)

\* C15: removeWindowByToken with a token that no entry's handle reports, and
\* removeTouchedPointerFromWindow with a handle that has no entry (also when
\* an entry of another handle shares its token), leave windows as it was and
\* do not abort the process.
C15_NoEntryForToken ==
    /\ last.op = "removeWindowByToken"
    /\ \A i \in 1..Len(pre) : getToken(pre[i].windowHandle) # last.token

C15_NoEntryForHandle ==
    /\ last.op = "removeTouchedPointerFromWindow"
    /\ \A i \in 1..Len(pre) : pre[i].windowHandle # last.windowHandle

C15_RemovalOfAbsentIsNoOp ==
    (C15_NoEntryForToken \/ C15_NoEntryForHandle) => (windows = pre /\ ~last.fatal)

\* removeTouchedPointerFromWindow for a handle with no entry while an entry
\* of another handle with the same token touches with that pointer.
C15_Witness ==
    /\ C15_NoEntryForHandle
    /\ \E i \in 1..Len(pre) :
            /\ getToken(pre[i].windowHandle) = getToken(last.windowHandle)
            /\ last.pointerIds \subseteq pre[i].pointerIds
            /\ last.pointerIds # {}

\* C16: after addOrUpdateWindow for a handle that already had an entry, with
\* flags that include DISPATCH_AS_SLIPPERY_EXIT, the entry has
\* DISPATCH_AS_SLIPPERY_EXIT and does not have DISPATCH_AS_IS, whether
\* DISPATCH_AS_IS was among the entry's flags before or among the flags of
\* the call.
C16_UpdateWithSlipperyExit ==
    /\ last.op = "addOrUpdateWindow"
    /\ Present(pre, last.windowHandle)
    /\ DISPATCH_AS_SLIPPERY_EXIT \in last.targetFlags

C16_UpdateWithSlipperyExitClearsAsIs ==
    C16_UpdateWithSlipperyExit =>
        /\ Present(windows, last.windowHandle)
        /\ DISPATCH_AS_SLIPPERY_EXIT \in Entry(windows, last.windowHandle).targetFlags
        /\ DISPATCH_AS_IS \notin Entry(windows, last.windowHandle).targetFlags

\* The call passed DISPATCH_AS_IS together with DISPATCH_AS_SLIPPERY_EXIT for
\* an entry that had no dispatch mode but DISPATCH_AS_OUTSIDE.
C16_Witness ==
    /\ C16_UpdateWithSlipperyExit
    /\ DISPATCH_AS_IS \in last.targetFlags
    /\ Entry(pre, last.windowHandle).targetFlags = {DISPATCH_AS_OUTSIDE}

\* C17: removeHoveringPointer removes the hovering pointer of that device
\* and id from every entry, leaves the other hovering pointers and every
\* touching set as they were, and then removes exactly the entries with no
\* touching and no hovering pointer, in order; afterwards
\* getWindowsWithHoveringPointer for that device and id is empty.
C17_Removed == last.hover

C17_Survivors ==
    {i \in 1..Len(pre) :
        pre[i].pointerIds # {} \/ pre[i].hoveringPointers \ C17_Removed # {}}

C17_RemoveHoveringPointerEverywhere ==
    last.op = "removeHoveringPointer" =>
        /\ Len(windows) = Cardinality(C17_Survivors)
        /\ \A i \in C17_Survivors :
            LET k == Cardinality({j \in C17_Survivors : j <= i})
            IN  /\ windows[k].windowHandle = pre[i].windowHandle
                /\ windows[k].hoveringPointers = pre[i].hoveringPointers \ C17_Removed
                /\ windows[k].pointerIds = pre[i].pointerIds
                /\ windows[k].targetFlags = pre[i].targetFlags
        /\ \A hp \in C17_Removed : getWindowsWithHoveringPointer(windows, hp[1], hp[2]) = << >>

\* Both entries hovered with the pointer removed; the first had nothing else
\* and is gone, the second keeps the hovering pointer of the other device.
C17_Witness ==
    /\ last.op = "removeHoveringPointer"
    /\ Len(pre) = 2
    /\ Len(windows) = 1
    /\ pre[1].hoveringPointers = C17_Removed
    /\ pre[1].pointerIds = {}
    /\ C17_Removed \subseteq pre[2].hoveringPointers
    /\ windows[1].hoveringPointers # {}
    /\ windows[1].windowHandle = pre[2].windowHandle

\* C18: removeTouchedPointer clears the pointer from the touching set of
\* every entry and changes nothing else: no entry is removed, also not one
\* left with no touching and no hovering pointer, and the other touching
\* pointers, the hovering pointers, the flags and the order stay.  A second
\* call with the same pointer changes nothing.
C18_RemoveTouchedPointerOnlyClears ==
    last.op = "removeTouchedPointer" =>
        /\ Len(windows) = Len(pre)
        /\ \A i \in 1..Len(pre) :
                /\ windows[i].pointerIds = pre[i].pointerIds \ last.pointerIds
                /\ windows[i].windowHandle = pre[i].windowHandle
                /\ windows[i].hoveringPointers = pre[i].hoveringPointers
                /\ windows[i].targetFlags = pre[i].targetFlags
                /\ windows[i].pilferedPointerIds = pre[i].pilferedPointerIds
                /\ windows[i].firstDownTimeInTarget = pre[i].firstDownTimeInTarget
        /\ \A p \in last.pointerIds : removeTouchedPointer(windows, p) = windows

\* The first entry touched with the pointer only and did not hover: it is
\* still there, empty; the second keeps its other touching pointer.
C18_Witness ==
    /\ last.op = "removeTouchedPointer"
    /\ Len(pre) = 2
    /\ Len(windows) = 2
    /\ pre[1].pointerIds = last.pointerIds
    /\ pre[1].hoveringPointers = {}
    /\ windows[1].pointerIds = {}
    /\ last.pointerIds \subseteq pre[2].pointerIds
    /\ windows[2].pointerIds # {}

\* C19: after every operation of TouchState other than addOrUpdateWindow and
\* addHoveringPointerToWindow each entry of windows is an entry that was
\* there before, with no touching, hovering or pilfered pointer it did not
\* have.  addOrUpdateWindow changes no hovering set and no entry of another
\* handle; addHoveringPointerToWindow changes no touching set and no flags.
C19_RemovingOperations ==
    {"reset", "removeTouchedPointer", "removeTouchedPointerFromWindow",
     "clearHoveringPointers", "clearWindowsWithoutPointers", "removeWindowByToken",
     "filterNonAsIsTouchWindows", "cancelPointersForWindowsExcept",
     "cancelPointersForNonPilferingWindows", "removeHoveringPointer"}

C19_NothingGained ==
    \A k \in 1..Len(windows) :
        \E i \in 1..Len(pre) :
            /\ windows[k].windowHandle = pre[i].windowHandle
            /\ windows[k].pointerIds \subseteq pre[i].pointerIds
            /\ windows[k].hoveringPointers \subseteq pre[i].hoveringPointers
            /\ windows[k].pilferedPointerIds \subseteq pre[i].pilferedPointerIds

C19_AddOrUpdateFrame ==
    /\ Len(windows) \in {Len(pre), Len(pre) + 1}
    /\ \A i \in 1..Len(pre) :
            /\ windows[i].hoveringPointers = pre[i].hoveringPointers
            /\ pre[i].windowHandle # last.windowHandle => windows[i] = pre[i]
    /\ \A k \in (Len(pre) + 1)..Len(windows) :
            /\ windows[k].windowHandle = last.windowHandle
            /\ windows[k].hoveringPointers = {}

C19_AddHoveringFrame ==
    /\ Len(windows) \in {Len(pre), Len(pre) + 1}
    /\ \A i \in 1..Len(pre) :
            /\ windows[i].pointerIds = pre[i].pointerIds
            /\ windows[i].targetFlags = pre[i].targetFlags
    /\ \A k \in (Len(pre) + 1)..Len(windows) :
            /\ windows[k].pointerIds = {}
            /\ windows[k].targetFlags = {}

C19_OnlyAddsAdd ==
    /\ last.op \in C19_RemovingOperations => C19_NothingGained
    /\ last.op = "addOrUpdateWindow" => C19_AddOrUpdateFrame
    /\ last.op = "addHoveringPointerToWindow" => C19_AddHoveringFrame

\* addOrUpdateWindow added a touching pointer to the entry of its handle
\* while an entry of another handle with the same token hovered.
C19_Witness ==
    /\ last.op = "addOrUpdateWindow"
    /\ Len(pre) = Len(windows)
    /\ windows # pre
    /\ \E i \in 1..Len(pre) :
            /\ pre[i].windowHandle # last.windowHandle
            /\ getToken(pre[i].windowHandle) = getToken(last.windowHandle)
            /\ pre[i].hoveringPointers # {}

\* C20: cancelPointersForNonPilferingWindows changes nothing when no entry
\* has a pilfered pointer, entries with no touching pointer included; when
\* some entry has one, every entry left with no touching pointer is removed,
\* also when it hovers, so every entry that remains has a touching pointer.
C20_SomePilfered == \E i \in 1..Len(pre) : pre[i].pilferedPointerIds # {}

C20_PilferCancelPrunesWithoutTouching ==
    last.op = "cancelPointersForNonPilferingWindows" =>
        /\ ~C20_SomePilfered => windows = pre
        /\ C20_SomePilfered => \A k \in 1..Len(windows) : windows[k].pointerIds # {}

\* Some entry pilfered; an entry that hovered is gone and another remains.
C20_Witness ==
    /\ last.op = "cancelPointersForNonPilferingWindows"
    /\ C20_SomePilfered
    /\ Len(windows) = 1
    /\ \E i \in 1..Len(pre) :
            /\ pre[i].hoveringPointers # {}
            /\ pre[i].windowHandle # windows[1].windowHandle

====
